---------------------------- MODULE Spec2Model ----------------------------
(***************************************************************************)
(* Streaming upload (s3Client.Put and its blockingWriteCloser handle) and  *)
(* the synchronous object operations of the s3 client.                     *)
(*                                                                         *)
(* Spec    : one Put, its background sender goroutine, the transport that  *)
(*           reads the request body from the in-process pipe, and a caller *)
(*           that issues Write and Close calls on the returned handle.     *)
(* SpecObj : StatObject, Get and GetPartial calls against a transport that *)
(*           answers each request with an error or a response.             *)
(***************************************************************************)
EXTENDS Integers, Sequences, FiniteSets, TLC

(***************************************************************************)
(* Bounds of the model.                                                    *)
(***************************************************************************)
MaxChunk == 2        \* longest byte slice handed to one Write call
MaxWrites == 2       \* Write calls issued by the caller
MaxCloses == 2       \* Close calls issued by the caller
MaxSent == 2         \* requests the transport has seen before a call
IntBits == 4         \* width of the model's int64
MaxTargets == 2      \* targets handed to pipe
MaxInput == 2        \* bytes on standard input

(***************************************************************************)
(* Inputs.  A content hash is a sequence of characters; " " stands for     *)
(* white space, "a" for a hexadecimal digit, "g" for a character that is   *)
(* no hexadecimal digit.                                                   *)
(***************************************************************************)
Md5Inputs ==
    { <<>>, <<" ">>, <<"a", "a">>, <<"a">>, <<"a", "g">>, <<" ", "a", "a">> }

DeclaredSizes == {-2, -1, 0, 3}

StatusCodes == {200, 403}

(***************************************************************************)
(* Errors.  iodine.New wraps a non-nil error (depth counts the wrappings)  *)
(* and maps nil to nil: Write (line 111) relies on that.  detail holds     *)
(* what the error carries (bucket and key, an offset, a status).           *)
(***************************************************************************)
Error(kind, detail) == [kind |-> kind, depth |-> 0, detail |-> detail]

Nil == Error("nil", <<>>)
ErrClosedPipe == Error("io.ErrClosedPipe", <<>>)
PipeEOF == Error("io.EOF", <<>>)
HexError == Error("hex", <<>>)
TransportError == Error("transport", <<>>)

IodineNew(e) == IF e = Nil THEN Nil ELSE [e EXCEPT !.depth = @ + 1]

(***************************************************************************)
(* strings.TrimSpace and hex.DecodeString on the content hash.             *)
(***************************************************************************)
SpaceChars == {" "}
IsHexDigit(c) == c = "a"
HexVal(c) == IF c = "a" THEN 10 ELSE 0

RECURSIVE TrimLeft(_, _)
TrimLeft(s, cutset) ==
    IF s # <<>> /\ Head(s) \in cutset THEN TrimLeft(Tail(s), cutset) ELSE s

RECURSIVE TrimRight(_, _)
TrimRight(s, cutset) ==
    IF s # <<>> /\ s[Len(s)] \in cutset
    THEN TrimRight(SubSeq(s, 1, Len(s) - 1), cutset)
    ELSE s

\* strings.Trim
Trim(s, cutset) == TrimRight(TrimLeft(s, cutset), cutset)

TrimSpace(s) == Trim(s, SpaceChars)

HexDecodeOK(s) ==
    /\ Len(s) % 2 = 0
    /\ \A i \in DOMAIN s : IsHexDigit(s[i])

HexDecodeBytes(s) ==
    [i \in 1..(Len(s) \div 2) |-> 16 * HexVal(s[2 * i - 1]) + HexVal(s[2 * i])]

Md5Provided(m) == TrimSpace(m) # <<>>

(***************************************************************************)
(* The request.                                                            *)
(***************************************************************************)
NoHeader == [set |-> FALSE, bytes |-> <<>>]
Base64Header(bytes) == [set |-> TRUE, bytes |-> bytes]

NoRange == [set |-> FALSE, first |-> 0, last |-> 0, open |-> FALSE]

KeyURL(bucket, key) == << bucket, key >>

NewReq(url) ==
    [Method |-> "GET", url |-> url, ContentLength |-> 0,
     ContentMD5 |-> NoHeader, Range |-> NoRange, signed |-> FALSE]

PutURL == KeyURL("b", "k")

SetContentLengthIfKnown(r, size) ==
    IF size >= 0 THEN [r EXCEPT !.ContentLength = size] ELSE r
SetContentLength(r, size) == [r EXCEPT !.ContentLength = size]

PutDecodeFails(m) == Md5Provided(m) /\ ~HexDecodeOK(m)

SignRequest(r) == [r EXCEPT !.signed = TRUE]

PutRequest(m, size) ==
    LET r1 == SetContentLength([NewReq(PutURL) EXCEPT !.Method = "PUT"], size)
        r2 == IF Md5Provided(m) /\ HexDecodeOK(m)
              THEN [r1 EXCEPT !.ContentMD5 = Base64Header(HexDecodeBytes(m))]
              ELSE r1
    IN IF PutDecodeFails(m) THEN r1 ELSE SignRequest(r2)

(***************************************************************************)
(* State.                                                                  *)
(***************************************************************************)
VARIABLES
    cpc,           \* caller: "init", "idle", "write", "closeWait"
    gpc,           \* background sender: "none", "start", "do", "closeErr",
                   \*   "release", "store", "closeR", "done"
    args,          \* the arguments Put was called with
    putRet,        \* what Put returned
    req,           \* the request the background sender built
    reqCount,      \* requests handed to the HTTP client
    status,        \* status of the response, 0 while there is none
    bgErr,         \* the background sender's local err
    pipe,          \* io.Pipe: pending write, write-side and read-side error
    wg,            \* blockingWriteCloser.release, the WaitGroup counter
    berr,          \* blockingWriteCloser.err
    panicked,      \* the program panicked (negative WaitGroup counter)
    offered,       \* bytes handed to Write so far (byte i has value i)
    wlen,          \* length of the slice of the Write in progress
    wn,            \* bytes of the Write in progress the reader has taken
    received,      \* bytes the transport read from the body, in order
    sawEOF,        \* the transport read the body to end-of-stream
    writeRets,     \* results of the Write calls that returned
    closeRets,     \* results of the Close calls that returned
    releaseCalls   \* errors Release was invoked with

putVars ==
    << cpc, gpc, args, putRet, req, reqCount, status, bgErr, pipe, wg, berr,
       panicked, offered, wlen, wn, received, sawEOF, writeRets, closeRets,
       releaseCalls >>

VARIABLES
    ocall,         \* the last call: operation and arguments
    rtCount,       \* requests handed to Transport.RoundTrip
    lastReq,       \* the last request handed to Transport.RoundTrip
    ores,          \* what the transport answered to it
    oret           \* what the last call returned

objVars == << ocall, rtCount, lastReq, ores, oret >>

VARIABLES
    ppc,           \* pipe(): "init", "cat", "open", "write", "close",
                   \*   "switch", "done"
    targetURLs,    \* the targets pipe was called with
    stdin,         \* length of the input (byte i has value i)
    rd,            \* bytes of the input read so far
    stdout,        \* bytes written to standard output, in order
    stdoutErr,     \* the error the write to standard output failed with
    putArgs,       \* the arguments putTargets was called with
    handles,       \* the upload handles putTargets opened, one per target
    fanErr,        \* pipe's local err: what putTargets returned
    pipeRet        \* what pipe returned

fanVars ==
    << ppc, targetURLs, stdin, rd, stdout, stdoutErr, putArgs, handles,
       fanErr, pipeRet >>

vars == << putVars, objVars, fanVars >>

NewPipe == [pending |-> FALSE, data |-> <<>>, werr |-> Nil, rerr |-> Nil]

WaitGroupAddNothing(c, d) == c
WaitGroupAdd(c, d) == c + d

Call(op, bucket, key, offset, length) ==
    [op |-> op, bucket |-> bucket, key |-> key, offset |-> offset,
     length |-> length]

NoCall == Call("none", "", "", 0, 0)

Result(body, size, date, md5, err) ==
    [body |-> body, size |-> size, date |-> date, md5 |-> md5, err |-> err]

ZeroTime == "0001-01-01T00:00:00Z"

\* what the transport answers: an error (fail) or a response
Response(fail, st, clHeader, lastModified, etag, contentLength) ==
    [fail |-> fail, StatusCode |-> st, ContentLengthHeader |-> clHeader,
     LastModified |-> lastModified, ETag |-> etag,
     ContentLength |-> contentLength, Body |-> "body"]

NoResponse == Response(FALSE, 0, <<>>, "", <<>>, 0)

InitObj ==
    /\ ocall = NoCall
    /\ ores = NoResponse
    /\ lastReq = NewReq(KeyURL("", ""))
    /\ oret = Result("nil", 0, ZeroTime, <<>>, Nil)

InitPut ==
    /\ cpc = "init"
    /\ gpc = "none"
    /\ args = [md5 |-> <<>>, size |-> 0]
    /\ putRet = [handle |-> FALSE, err |-> Nil]
    /\ req = NewReq(PutURL)
    /\ reqCount = 0
    /\ status = 0
    /\ bgErr = Nil
    /\ pipe = NewPipe
    /\ wg = 0
    /\ berr = Nil
    /\ panicked = FALSE
    /\ offered = 0
    /\ wlen = 0
    /\ wn = 0
    /\ received = <<>>
    /\ sawEOF = FALSE
    /\ writeRets = <<>>
    /\ closeRets = <<>>
    /\ releaseCalls = <<>>

(***************************************************************************)
(* probe.Error: a cause and the call trace collected on the way up.  A nil *)
(* *probe.Error is the record without cause: Trace and ToGoError accept it.*)
(***************************************************************************)
PathError(errno) == Error("os.PathError", errno)

NewProbeError(e) == [cause |-> e, trace |-> <<>>]

NilProbe == NewProbeError(Nil)

Trace(e, fields) ==
    IF e = NilProbe THEN NilProbe ELSE [e EXCEPT !.trace = Append(@, fields)]

ToGoErrorNone(e) == Nil
ToGoError(e) == e.cause

NotReturned == [returned |-> FALSE, err |-> NilProbe]
Returned(e) == [returned |-> TRUE, err |-> e]

InitFan ==
    /\ ppc = "init"
    /\ targetURLs = <<>>
    /\ stdin = 0
    /\ rd = 0
    /\ stdout = <<>>
    /\ stdoutErr = Nil
    /\ putArgs = [length |-> 0]
    /\ handles = <<>>
    /\ fanErr = NilProbe
    /\ pipeRet = NotReturned

Init == InitPut /\ InitObj /\ InitFan /\ rtCount = 0

(***************************************************************************)
(* Put: creates the pipe and the handle, starts the background sender and  *)
(* returns the handle.                                                     *)
(***************************************************************************)
PutResultSync(m) ==
    IF PutDecodeFails(m)
    THEN [handle |-> FALSE, err |-> IodineNew(HexError)]
    ELSE [handle |-> TRUE, err |-> Nil]
PutResult(m) == [handle |-> TRUE, err |-> Nil]

Put(m, size) ==
    /\ ~panicked
    /\ UNCHANGED << objVars, fanVars >>
    /\ cpc = "init"
    /\ args' = [md5 |-> m, size |-> size]
    /\ pipe' = NewPipe
    /\ wg' = WaitGroupAdd(0, 1)
    /\ berr' = Nil
    /\ gpc' = "start"
    /\ putRet' = PutResult(m)
    /\ cpc' = "idle"
    /\ UNCHANGED << req, reqCount, status, bgErr, panicked, offered, wlen, wn,
                    received, sawEOF, writeRets, closeRets, releaseCalls >>

(***************************************************************************)
(* io.Pipe.  A Write hands its slice to the reader and returns when the    *)
(* reader has taken all of it or an end of the pipe was closed.  Closing   *)
(* the read end with nil stores ErrClosedPipe.  A read-side error that is  *)
(* already stored is kept or replaced, depending on the io package the     *)
(* build uses.                                                             *)
(***************************************************************************)
ReadCloseError(e) == IF e = Nil THEN ErrClosedPipe ELSE e

ReadCloseOutcomes(p, e) ==
    IF p.rerr = Nil THEN {ReadCloseError(e)} ELSE {p.rerr, ReadCloseError(e)}

PipeTake(data, k) == SubSeq(data, 1, k)

PipeRest(data, k) == SubSeq(data, k + 1, Len(data))

WriteMayReturnAlways(p) == TRUE
WriteMayReturn(p) == ~p.pending \/ p.rerr # Nil

\* the bytes of the next Write call of length n
Chunk(n) == [i \in 1..n |-> offered + i]

(***************************************************************************)
(* blockingWriteCloser.Write                                               *)
(***************************************************************************)
WriteResult(len, n, err, closed) ==
    [len |-> len, n |-> n, err |-> IodineNew(err), afterClose |-> closed]

WriteCall(n) ==
    /\ ~panicked
    /\ UNCHANGED << objVars, fanVars >>
    /\ cpc = "idle"
    /\ Len(writeRets) < MaxWrites
    /\ offered' = offered + n
    /\ wlen' = n
    /\ wn' = 0
    /\ IF pipe.werr # Nil
       THEN /\ writeRets' = Append(writeRets, WriteResult(n, 0, ErrClosedPipe, TRUE))
            /\ UNCHANGED << cpc, pipe >>
       ELSE IF pipe.rerr # Nil
       THEN /\ writeRets' = Append(writeRets, WriteResult(n, 0, pipe.rerr, FALSE))
            /\ UNCHANGED << cpc, pipe >>
       ELSE /\ pipe' = [pipe EXCEPT !.pending = TRUE, !.data = Chunk(n)]
            /\ cpc' = "write"
            /\ UNCHANGED writeRets
    /\ UNCHANGED << gpc, args, putRet, req, reqCount, status, bgErr, wg, berr,
                    panicked, received, sawEOF, closeRets, releaseCalls >>

WriteReturn ==
    /\ ~panicked
    /\ UNCHANGED << objVars, fanVars >>
    /\ cpc = "write"
    /\ WriteMayReturn(pipe)
    /\ writeRets' = Append(writeRets,
                           WriteResult(wlen, wn,
                                       IF pipe.pending THEN pipe.rerr ELSE Nil,
                                       FALSE))
    /\ pipe' = [pipe EXCEPT !.pending = FALSE, !.data = <<>>]
    /\ cpc' = "idle"
    /\ UNCHANGED << gpc, args, putRet, req, reqCount, status, bgErr, wg, berr,
                    panicked, offered, wlen, wn, received, sawEOF, closeRets,
                    releaseCalls >>

(***************************************************************************)
(* blockingWriteCloser.Close: close the write end, keep its error if it    *)
(* has one, wait for the release, return the stored error.                 *)
(***************************************************************************)
CloseStoredOverwrite(stored, werr) == werr
CloseStored(stored, werr) == IF werr # Nil THEN werr ELSE stored

\* PipeWriter.Close always returns nil
PipeWriterClose(p) ==
    [p EXCEPT !.werr = IF p.werr = Nil THEN PipeEOF ELSE p.werr]

WaitReturns(c) == c = 0

CloseCall ==
    /\ ~panicked
    /\ UNCHANGED << objVars, fanVars >>
    /\ cpc = "idle"
    /\ Len(closeRets) < MaxCloses
    /\ pipe' = PipeWriterClose(pipe)
    /\ berr' = CloseStored(berr, Nil)
    /\ cpc' = "closeWait"
    /\ UNCHANGED << gpc, args, putRet, req, reqCount, status, bgErr, wg,
                    panicked, offered, wlen, wn, received, sawEOF, writeRets,
                    closeRets, releaseCalls >>

CloseReturn ==
    /\ ~panicked
    /\ UNCHANGED << objVars, fanVars >>
    /\ cpc = "closeWait"
    /\ WaitReturns(wg)
    /\ closeRets' = Append(closeRets, berr)
    /\ cpc' = "idle"
    /\ UNCHANGED << gpc, args, putRet, req, reqCount, status, bgErr, pipe, wg,
                    berr, panicked, offered, wlen, wn, received, sawEOF,
                    writeRets, releaseCalls >>

(***************************************************************************)
(* The background sender started by Put.                                   *)
(***************************************************************************)
\* lines 64-79: build the request; a hash that fails to decode ends the send
BgBuildReq ==
    /\ ~panicked
    /\ UNCHANGED << objVars, fanVars >>
    /\ gpc = "start"
    /\ req' = PutRequest(args.md5, args.size)
    /\ IF PutDecodeFails(args.md5)
       THEN /\ bgErr' = IodineNew(HexError)
            /\ gpc' = "closeErr"
            /\ UNCHANGED reqCount
       ELSE /\ gpc' = "do"
            /\ reqCount' = reqCount + 1
            /\ UNCHANGED bgErr
    /\ UNCHANGED << cpc, args, putRet, status, pipe, wg, berr, panicked,
                    offered, wlen, wn, received, sawEOF, writeRets, closeRets,
                    releaseCalls >>

\* client.Do reads the request body: k bytes of the pending Write
TransportRead(k) ==
    /\ ~panicked
    /\ UNCHANGED << objVars, fanVars >>
    /\ gpc = "do"
    /\ pipe.rerr = Nil
    /\ ~sawEOF
    /\ pipe.pending
    /\ k <= Len(pipe.data)
    /\ k > 0 \/ pipe.data = <<>>
    /\ received' = received \o PipeTake(pipe.data, k)
    /\ wn' = wn + k
    /\ pipe' = [pipe EXCEPT !.data = PipeRest(pipe.data, k),
                            !.pending = PipeRest(pipe.data, k) # <<>>]
    /\ UNCHANGED << cpc, gpc, args, putRet, req, reqCount, status, bgErr, wg,
                    berr, panicked, offered, wlen, sawEOF, writeRets,
                    closeRets, releaseCalls >>

\* client.Do reads end-of-stream: the write end is closed, nothing pending
TransportReadEOF ==
    /\ ~panicked
    /\ UNCHANGED << objVars, fanVars >>
    /\ gpc = "do"
    /\ pipe.rerr = Nil
    /\ ~sawEOF
    /\ ~pipe.pending
    /\ pipe.werr # Nil
    /\ sawEOF' = TRUE
    /\ UNCHANGED << cpc, gpc, args, putRet, req, reqCount, status, bgErr, pipe,
                    wg, berr, panicked, offered, wlen, wn, received, writeRets,
                    closeRets, releaseCalls >>

\* the transport closes the request body (net/http closes it when it is
\* done with it, also on errors)
TransportCloseBody ==
    /\ ~panicked
    /\ UNCHANGED << objVars, fanVars >>
    /\ gpc = "do"
    /\ pipe.rerr = Nil
    /\ pipe' = [pipe EXCEPT !.rerr = ErrClosedPipe]
    /\ UNCHANGED << cpc, gpc, args, putRet, req, reqCount, status, bgErr, wg,
                    berr, panicked, offered, wlen, wn, received, sawEOF,
                    writeRets, closeRets, releaseCalls >>

\* lines 82-89: client.Do returns an error
TransportFail ==
    /\ ~panicked
    /\ UNCHANGED << objVars, fanVars >>
    /\ gpc = "do"
    /\ bgErr' = IodineNew(TransportError)
    /\ gpc' = "closeErr"
    /\ UNCHANGED << cpc, args, putRet, req, reqCount, status, pipe, wg, berr,
                    panicked, offered, wlen, wn, received, sawEOF, writeRets,
                    closeRets, releaseCalls >>

\* lines 82-97: client.Do returns a response; err is nil here, and line 92
\* wraps that nil
StatusErr(st, err) == IodineNew(err)

AfterResponse(st) == IF st # 200 THEN "closeErr" ELSE "release"

TransportRespond(st) ==
    /\ ~panicked
    /\ UNCHANGED << objVars, fanVars >>
    /\ gpc = "do"
    /\ status' = st
    /\ bgErr' = IF st # 200 THEN StatusErr(st, Nil) ELSE Nil
    /\ gpc' = AfterResponse(st)
    /\ UNCHANGED << cpc, args, putRet, req, reqCount, pipe, wg, berr, panicked,
                    offered, wlen, wn, received, sawEOF, writeRets, closeRets,
                    releaseCalls >>

\* lines 73, 86, 93: r.CloseWithError(err)
BgCloseWithError ==
    /\ ~panicked
    /\ UNCHANGED << objVars, fanVars >>
    /\ gpc = "closeErr"
    /\ \E e \in ReadCloseOutcomes(pipe, bgErr) :
           pipe' = [pipe EXCEPT !.rerr = e]
    /\ gpc' = "release"
    /\ UNCHANGED << cpc, args, putRet, req, reqCount, status, bgErr, wg, berr,
                    panicked, offered, wlen, wn, received, sawEOF, writeRets,
                    closeRets, releaseCalls >>

\* where the sender goes after Release: the error paths return (lines 75,
\* 88, 95), the success path closes the read end (line 98)
AfterReleaseFallThrough(st) == IF st = 200 THEN "closeR" ELSE "release"
AfterReleaseNoClose(st) == "done"
AfterRelease(st) == IF st = 200 THEN "closeR" ELSE "done"

\* line 125: b.release.Done()
BgReleaseDone ==
    /\ ~panicked
    /\ UNCHANGED << objVars, fanVars >>
    /\ gpc = "release"
    /\ releaseCalls' = Append(releaseCalls, bgErr)
    /\ wg' = wg - 1
    /\ panicked' = (wg - 1 < 0)
    /\ gpc' = IF bgErr # Nil THEN "store" ELSE AfterRelease(status)
    /\ UNCHANGED << cpc, args, putRet, req, reqCount, status, bgErr, pipe,
                    berr, offered, wlen, wn, received, sawEOF, writeRets,
                    closeRets >>

\* lines 126-128: b.err = err, after Done and not ordered with Close's read
BgReleaseStore ==
    /\ ~panicked
    /\ UNCHANGED << objVars, fanVars >>
    /\ gpc = "store"
    /\ berr' = bgErr
    /\ gpc' = AfterRelease(status)
    /\ UNCHANGED << cpc, args, putRet, req, reqCount, status, bgErr, pipe, wg,
                    panicked, offered, wlen, wn, received, sawEOF, writeRets,
                    closeRets, releaseCalls >>

\* line 98: r.Close()
BgCloseReader ==
    /\ ~panicked
    /\ UNCHANGED << objVars, fanVars >>
    /\ gpc = "closeR"
    /\ \E e \in ReadCloseOutcomes(pipe, Nil) :
           pipe' = [pipe EXCEPT !.rerr = e]
    /\ gpc' = "done"
    /\ UNCHANGED << cpc, args, putRet, req, reqCount, status, bgErr, wg, berr,
                    panicked, offered, wlen, wn, received, sawEOF, writeRets,
                    closeRets, releaseCalls >>

Next ==
    \/ \E m \in Md5Inputs, size \in DeclaredSizes : Put(m, size)
    \/ \E n \in 0..MaxChunk : WriteCall(n)
    \/ WriteReturn
    \/ CloseCall
    \/ CloseReturn
    \/ BgBuildReq
    \/ \E k \in 0..MaxChunk : TransportRead(k)
    \/ TransportReadEOF
    \/ TransportCloseBody
    \/ TransportFail
    \/ \E st \in StatusCodes : TransportRespond(st)
    \/ BgCloseWithError
    \/ BgReleaseDone
    \/ BgReleaseStore
    \/ BgCloseReader

Spec == Init /\ [][Next]_vars

(***************************************************************************)
(* Properties of the upload handle.                                        *)
(***************************************************************************)
BytesUpTo(n) == [i \in 1..n |-> i]

\* C1: a Close that returns after Release(e) returns exactly e, under every
\* interleaving of Close with Release.
C1_CloseReturnsReleasedError ==
    \A i \in DOMAIN closeRets :
        releaseCalls # <<>> => closeRets[i] = releaseCalls[1]

\* C2: after a response whose status is not 200, Close returns a non-nil
\* error and the background sender has not panicked.
C2_Non200CloseReturnsError ==
    (status # 0 /\ status # 200) =>
        /\ ~panicked
        /\ \A i \in DOMAIN closeRets : closeRets[i] # Nil

\* C3: Release is never invoked twice on a handle, and once the background
\* sender has terminated it has been invoked exactly once.
C3_ReleaseExactlyOnce ==
    /\ Len(releaseCalls) <= 1
    /\ gpc = "done" => Len(releaseCalls) = 1

C3_Witness == gpc = "done" /\ status = 403 /\ Len(releaseCalls) = 1

\* C4: whenever a Close call has returned, Release has been invoked, also
\* when Close was called before any Write.
C4_CloseAfterRelease == closeRets # <<>> => releaseCalls # <<>>

C4_Witness == closeRets # <<>> /\ writeRets = <<>> /\ offered = 0

\* C5: when every Write precedes Close, the transport reads the body to
\* end-of-stream and answers 200, then every Write accepted its whole slice,
\* Close returns nil and the transport read exactly the written bytes in
\* order.
WritesThenClose == \A i \in DOMAIN writeRets : ~writeRets[i].afterClose

C5_FullDelivery ==
    (closeRets # <<>> /\ sawEOF /\ status = 200 /\ WritesThenClose) =>
        /\ closeRets[1] = Nil
        /\ received = BytesUpTo(offered)
        /\ \A i \in DOMAIN writeRets :
               writeRets[i].n = writeRets[i].len /\ writeRets[i].err = Nil

C5_Witness ==
    /\ closeRets # <<>> /\ sawEOF /\ status = 200 /\ WritesThenClose
    /\ Len(writeRets) = MaxWrites
    /\ offered = MaxWrites * MaxChunk
    /\ received = BytesUpTo(offered)

\* C6 as stated: for a negative declared length the request's content
\* length is left as the request constructor set it.
RequestBuilt == gpc \notin {"none", "start"}

C6_NegativeLengthUnset ==
    (RequestBuilt /\ args.size < 0) => req.ContentLength = NewReq(PutURL).ContentLength

\* C6 as amended: Put assigns the declared length to the request's content
\* length for every value, negative ones included.
C6_LengthAssigned == RequestBuilt => req.ContentLength = args.size

C6_Witness == RequestBuilt /\ args.size < 0 /\ req.ContentLength = args.size

\* C7 as stated: Put returns a handle and a nil error, and no Write on the
\* handle reports the background failure.
BackgroundFailure(e) == e.kind \in {"hex", "transport"}

C7_NoWriteReportsFailure ==
    cpc # "init" =>
        /\ putRet = [handle |-> TRUE, err |-> Nil]
        /\ \A i \in DOMAIN writeRets : ~BackgroundFailure(writeRets[i].err)

\* C7 as amended: Put returns a handle and a nil error whatever becomes of
\* the transfer; a Write returns an error only once an end of the pipe is
\* closed, and the error of a Write issued before Close is the read end's:
\* the background failure itself, or closed-pipe.
C7_PutNeverFails ==
    cpc # "init" =>
        /\ putRet = [handle |-> TRUE, err |-> Nil]
        /\ \A i \in DOMAIN writeRets :
               LET w == writeRets[i]
               IN /\ w.afterClose => w.err = IodineNew(ErrClosedPipe)
                  /\ (~w.afterClose /\ w.err # Nil) =>
                         /\ pipe.rerr # Nil
                         /\ \/ w.err = IodineNew(ErrClosedPipe)
                            \/ w.err = IodineNew(bgErr) /\ BackgroundFailure(bgErr)

C7_Witness ==
    /\ putRet = [handle |-> TRUE, err |-> Nil]
    /\ \E i \in DOMAIN writeRets :
           ~writeRets[i].afterClose /\ BackgroundFailure(writeRets[i].err)

\* C8: for a hash that is provided and fails to decode, Put returns a
\* handle and nil, no request is sent, Release is invoked with the decode
\* error and Close returns that error.
C8_DecodeFailureDelivered ==
    (cpc # "init" /\ PutDecodeFails(args.md5)) =>
        /\ putRet = [handle |-> TRUE, err |-> Nil]
        /\ reqCount = 0
        /\ \A i \in DOMAIN releaseCalls : releaseCalls[i] = IodineNew(HexError)
        /\ \A i \in DOMAIN closeRets : closeRets[i] = IodineNew(HexError)

\* C9: a Close called after a Close has returned does not block, leaves the
\* WaitGroup counter alone, raises no panic and leaves the stored error as
\* it is.
C9_SecondClose ==
    [][ (closeRets # <<>> /\ (CloseCall \/ CloseReturn)) =>
            /\ wg' = wg
            /\ wg' = 0
            /\ berr' = berr
            /\ ~panicked' ]_vars

C9_Witness == Len(closeRets) = 2 /\ closeRets[2] # Nil

(***************************************************************************)
(* The synchronous object operations.                                      *)
(***************************************************************************)
RECURSIVE TwoTo(_)
TwoTo(n) == IF n = 0 THEN 1 ELSE 2 * TwoTo(n - 1)

IntModulus == TwoTo(IntBits)
MaxInt == (IntModulus \div 2) - 1
MinInt == -(IntModulus \div 2)

\* int64 arithmetic wraps around
WrapInt(x) == ((x - MinInt) % IntModulus) + MinInt

Quote == "\""
QuoteChars == {Quote}

InvalidArgument == Error("client.InvalidArgument", <<>>)
InvalidRange(offset) == Error("client.InvalidRange", << offset >>)
ObjectNotFound(bucket, key) == Error("client.ObjectNotFound", << bucket, key >>)
ParseIntError == Error("strconv.ParseInt", <<>>)
ParseTimeError == Error("time.Parse", <<>>)

\* the protocol-level error built from a response
NewError(res) == Error("s3.ResponseError", << res.StatusCode >>)

\* strconv.ParseInt(s, 10, 64) on strings short enough to stay in range
IsDigit(c) == c \in {"0", "1", "2"}
DigitVal(c) == IF c = "0" THEN 0 ELSE IF c = "1" THEN 1 ELSE 2

RECURSIVE DigitsValue(_)
DigitsValue(s) ==
    IF s = <<>> THEN 0
    ELSE 10 * DigitsValue(SubSeq(s, 1, Len(s) - 1)) + DigitVal(s[Len(s)])

ParseInt(s) ==
    LET signed == s # <<>> /\ Head(s) \in {"+", "-"}
        digits == IF signed THEN Tail(s) ELSE s
    IN IF digits = <<>> \/ \E i \in DOMAIN digits : ~IsDigit(digits[i])
       THEN [ok |-> FALSE, v |-> 0]
       ELSE [ok |-> TRUE,
             v |-> IF signed /\ Head(s) = "-"
                   THEN -DigitsValue(digits) ELSE DigitsValue(digits)]

\* time.Parse(time.RFC1123, s) on one well-formed date and one that is not
RFC1123Date == "Mon, 02 Jan 2006 15:04:05 MST"
BadDate == "2006-01-02"
ParsedDate == "2006-01-02T15:04:05 MST"

ParseRFC1123(s) ==
    IF s = RFC1123Date THEN [ok |-> TRUE, t |-> ParsedDate]
    ELSE [ok |-> FALSE, t |-> ZeroTime]

(***************************************************************************)
(* What the transport answers: an error, or a response.                    *)
(***************************************************************************)
ObjStatusCodes == {200, 206, 404, 500}

Responses ==
    { Response(TRUE, 0, <<>>, "", <<>>, 0) }
    \cup { Response(FALSE, st, cl, lm, << Quote, "e", Quote >>, 12) :
              st \in ObjStatusCodes,
              cl \in { << "1", "2" >>, << "-", "1" >>, << "x" >>, <<>> },
              lm \in { RFC1123Date, BadDate, "" } }
    \cup { Response(FALSE, st, << "1", "2" >>, RFC1123Date, etag, n) :
              st \in ObjStatusCodes,
              etag \in { << Quote, "e", Quote >>, << "e" >>, <<>> },
              n \in {-1, 12} }

Buckets == {"", "b"}
Keys == {"", "k"}
Offsets == {MinInt, -1, 0, 1, 2, MaxInt}
Lengths == {MinInt, -1, 0, 1, 2, MaxInt}

(***************************************************************************)
(* StatObject                                                              *)
(***************************************************************************)
StatArgsInvalidBoth(bucket, key) == bucket = "" /\ key = ""
StatArgsInvalid(bucket, key) == bucket = "" \/ key = ""

StatRequest(bucket, key) ==
    SignRequest([NewReq(KeyURL(bucket, key)) EXCEPT !.Method = "HEAD"])

LastModifiedAbsentNever(s) == FALSE
LastModifiedAbsent(s) == s = ""

StatResult(bucket, key, res) ==
    IF res.fail
    THEN Result("nil", 0, ZeroTime, <<>>, IodineNew(TransportError))
    ELSE IF res.StatusCode = 404
    THEN Result("nil", 0, ZeroTime, <<>>, IodineNew(ObjectNotFound(bucket, key)))
    ELSE IF res.StatusCode = 200
    THEN LET size == ParseInt(res.ContentLengthHeader)
             date == ParseRFC1123(res.LastModified)
         IN IF ~size.ok
            THEN Result("nil", 0, ZeroTime, <<>>, IodineNew(ParseIntError))
            ELSE IF LastModifiedAbsent(res.LastModified)
            THEN Result("nil", size.v, ZeroTime, <<>>, Nil)
            ELSE IF ~date.ok
            THEN Result("nil", 0, date.t, <<>>, IodineNew(ParseTimeError))
            ELSE Result("nil", size.v, date.t, <<>>, Nil)
    ELSE Result("nil", 0, ZeroTime, <<>>, IodineNew(NewError(res)))

StatObject(bucket, key, res) ==
    /\ ocall = NoCall
    /\ ocall' = Call("StatObject", bucket, key, 0, 0)
    /\ IF StatArgsInvalid(bucket, key)
       THEN /\ oret' = Result("nil", 0, ZeroTime, <<>>, IodineNew(InvalidArgument))
            /\ UNCHANGED << rtCount, lastReq, ores >>
       ELSE /\ lastReq' = StatRequest(bucket, key)
            /\ rtCount' = rtCount + 1
            /\ ores' = res
            /\ oret' = StatResult(bucket, key, res)
    /\ UNCHANGED << putVars, fanVars >>

(***************************************************************************)
(* Get                                                                     *)
(***************************************************************************)
GetRequest(bucket, key) == SignRequest(NewReq(KeyURL(bucket, key)))

GetResult(res) ==
    IF res.fail
    THEN Result("nil", 0, ZeroTime, <<>>, IodineNew(TransportError))
    ELSE IF res.StatusCode # 200
    THEN Result("nil", 0, ZeroTime, <<>>, IodineNew(NewError(res)))
    ELSE Result(res.Body, res.ContentLength, ZeroTime,
                Trim(res.ETag, QuoteChars), Nil)

Get(bucket, key, res) ==
    /\ ocall = NoCall
    /\ ocall' = Call("Get", bucket, key, 0, 0)
    /\ lastReq' = GetRequest(bucket, key)
    /\ rtCount' = rtCount + 1
    /\ ores' = res
    /\ oret' = GetResult(res)
    /\ UNCHANGED << putVars, fanVars >>

(***************************************************************************)
(* GetPartial                                                              *)
(***************************************************************************)
OffsetInvalid(offset) == offset < 0

RangeHeader(offset, length) ==
    IF length >= 0
    THEN [set |-> TRUE, first |-> offset,
          last |-> WrapInt(WrapInt(offset + length) - 1), open |-> FALSE]
    ELSE [set |-> TRUE, first |-> offset, last |-> 0, open |-> TRUE]

GetPartialRequest(bucket, key, offset, length) ==
    SignRequest([NewReq(KeyURL(bucket, key))
                    EXCEPT !.Range = RangeHeader(offset, length)])

GetPartialResultOnly200(res) ==
    IF res.fail
    THEN Result("nil", 0, ZeroTime, <<>>, IodineNew(TransportError))
    ELSE IF res.StatusCode = 200
    THEN Result(res.Body, res.ContentLength, ZeroTime, res.ETag, Nil)
    ELSE Result("nil", 0, ZeroTime, <<>>, IodineNew(NewError(res)))
GetPartialResult(res) ==
    IF res.fail
    THEN Result("nil", 0, ZeroTime, <<>>, IodineNew(TransportError))
    ELSE IF res.StatusCode \in {200, 206}
    THEN Result(res.Body, res.ContentLength, ZeroTime, res.ETag, Nil)
    ELSE Result("nil", 0, ZeroTime, <<>>, IodineNew(NewError(res)))

GetPartial(bucket, key, offset, length, res) ==
    /\ ocall = NoCall
    /\ ocall' = Call("GetPartial", bucket, key, offset, length)
    /\ IF OffsetInvalid(offset)
       THEN /\ oret' = Result("nil", 0, ZeroTime, <<>>,
                              IodineNew(InvalidRange(offset)))
            /\ UNCHANGED << rtCount, lastReq, ores >>
       ELSE /\ lastReq' = GetPartialRequest(bucket, key, offset, length)
            /\ rtCount' = rtCount + 1
            /\ ores' = res
            /\ oret' = GetPartialResult(res)
    /\ UNCHANGED << putVars, fanVars >>

InitOps == InitPut /\ InitObj /\ InitFan /\ rtCount \in 0..MaxSent

\* a call is made only while none has been made: no inputs are drawn after it
Before(S) == IF ocall = NoCall THEN S ELSE {}

StatObjectCall ==
    \E b \in Before(Buckets), k \in Keys, res \in Responses :
        StatObject(b, k, res)

GetCall ==
    \E b \in Before(Buckets), k \in Keys, res \in Responses : Get(b, k, res)

GetPartialCall ==
    \E b \in Before(Buckets), k \in Keys, off \in Offsets, len \in Lengths,
       res \in Responses : GetPartial(b, k, off, len, res)

NextObj == StatObjectCall \/ GetCall \/ GetPartialCall

SpecObj == InitOps /\ [][NextObj]_vars

\* C10: StatObject with an empty bucket or key returns InvalidArgument, and
\* GetPartial with a negative offset returns InvalidRange for every length;
\* neither builds nor sends a request.
NoRequestSent == rtCount' = rtCount /\ lastReq' = lastReq /\ ores' = ores

C10_ArgumentErrorsBeforeNetwork ==
    [][ /\ (ocall'.op = "StatObject"
             /\ (ocall'.bucket = "" \/ ocall'.key = "")) =>
               /\ oret'.err = IodineNew(InvalidArgument)
               /\ NoRequestSent
        /\ (ocall'.op = "GetPartial" /\ ocall'.offset < 0) =>
               /\ oret'.err = IodineNew(InvalidRange(ocall'.offset))
               /\ NoRequestSent ]_vars

C10_Witness ==
    /\ ocall.op = "GetPartial" /\ ocall.offset < 0 /\ ocall.length > 0
    /\ oret.err = IodineNew(InvalidRange(ocall.offset))
    /\ rtCount = MaxSent

\* C11: for offset >= 0, GetPartial asks for first byte offset and last byte
\* offset+length-1 when length >= 0, for every such length, and for
\* "bytes=<offset>-" when length < 0.
RequestedPartial == ocall.op = "GetPartial" /\ ocall.offset >= 0

C11_RangeRequested ==
    RequestedPartial =>
        lastReq.Range =
            IF ocall.length >= 0
            THEN [set |-> TRUE, first |-> ocall.offset,
                  last |-> ocall.offset + ocall.length - 1, open |-> FALSE]
            ELSE [set |-> TRUE, first |-> ocall.offset, last |-> 0,
                  open |-> TRUE]

\* C12: StatObject's result follows the response: 404 gives ObjectNotFound
\* with the requested bucket and key; 200 gives the decimal Content-Length
\* and the RFC1123 Last-Modified with a nil error, an absent Last-Modified
\* giving the size with the zero time, an unparsable Content-Length or
\* Last-Modified giving a parse error; any other status gives the
\* protocol-level error.
StatAnswered ==
    /\ ocall.op = "StatObject" /\ ocall.bucket # "" /\ ocall.key # ""
    /\ ~ores.fail

DecimalLengths == { << "1", "2" >>, << "-", "1" >> }
DecimalValue(h) == IF h = << "1", "2" >> THEN 12 ELSE -1

SuccessfulRead == ocall.op \in {"Get", "GetPartial"} /\ oret.err = Nil

C13_ETagQuotesStripped ==
    SuccessfulRead => oret.md5 = Trim(ores.ETag, QuoteChars)

\* C14: a Get succeeds only on 200 and a GetPartial on 200 and 206; success
\* returns the response's body, content length and hash with a nil error,
\* any other status the protocol-level error with a nil stream, size 0 and
\* an empty hash; each call sends exactly one request.
ReadSent ==
    \/ ocall'.op = "Get"
    \/ ocall'.op = "GetPartial" /\ ocall'.offset >= 0

SuccessStatus(op) == IF op = "Get" THEN {200} ELSE {200, 206}

C14_ReadByStatus ==
    [][ ReadSent =>
          /\ rtCount' = rtCount + 1
          /\ ~ores'.fail =>
                IF ores'.StatusCode \in SuccessStatus(ocall'.op)
                THEN /\ oret'.err = Nil
                     /\ oret'.body = ores'.Body
                     /\ oret'.size = ores'.ContentLength
                     /\ Trim(oret'.md5, QuoteChars) = Trim(ores'.ETag, QuoteChars)
                ELSE /\ oret'.err = IodineNew(NewError(ores'))
                     /\ oret'.body = "nil"
                     /\ oret'.size = 0
                     /\ oret'.md5 = <<>> ]_vars

C14_Witness ==
    /\ ocall.op = "GetPartial" /\ ores.StatusCode = 206 /\ ~ores.fail
    /\ oret.err = Nil /\ oret.body = "body" /\ oret.size = 12

(***************************************************************************)
(* pipe (pipe-main.go): standard input fanned out to the targets, or       *)
(* copied to standard output when there is none.  catOut and putTargets    *)
(* are not part of the sources at hand: they follow the specification's    *)
(* section 4.3.  A target's upload is seen from the dispatcher's side:     *)
(* the bytes written to its handle and what its Close returned.            *)
(***************************************************************************)
TargetIds == {"t1", "t2"}

TargetLists == UNION { [1..n -> TargetIds] : n \in 0..MaxTargets }

UnknownLength == -1

\* what a failed write to standard output, or a Close, can report
StdoutErrors == { PathError("EPIPE"), PathError("EIO") }
CloseOutcomes == { Nil, TransportError, PathError("EPIPE"), PathError("EIO") }

InputChunk(from, k) == [i \in 1..k |-> from + i]

NoTargetsSingle(targets) == Len(targets) <= 1
NoTargets(targets) == Len(targets) = 0

IsPathError(e) == e.kind = "os.PathError"
IsBrokenPipe(e) == e.kind = "os.PathError" /\ e.detail = "EPIPE"

\* pipe, lines 68-69 and 77: the branch on the target list
Pipe(targets, n) ==
    /\ ppc = "init"
    /\ targetURLs' = targets
    /\ stdin' = n
    /\ IF NoTargets(targets)
       THEN /\ ppc' = "cat"
            /\ UNCHANGED putArgs
       ELSE /\ ppc' = "open"
            /\ putArgs' = [length |-> UnknownLength]
    /\ UNCHANGED << rd, stdout, stdoutErr, handles, fanErr, pipeRet >>
    /\ UNCHANGED << putVars, objVars >>

\* catOut: a broken pipe on standard output ends the copy gracefully
CatOutResult(e) ==
    IF e = Nil \/ IsBrokenPipe(e) THEN NilProbe ELSE NewProbeError(e)

CatOutCopy(k) ==
    /\ ppc = "cat"
    /\ k <= stdin - rd
    /\ stdout' = stdout \o InputChunk(rd, k)
    /\ rd' = rd + k
    /\ UNCHANGED << ppc, targetURLs, stdin, stdoutErr, putArgs, handles,
                    fanErr, pipeRet >>
    /\ UNCHANGED << putVars, objVars >>

CatOutFail(e) ==
    /\ ppc = "cat"
    /\ rd < stdin
    /\ stdoutErr' = e
    /\ pipeRet' = Returned(Trace(CatOutResult(e), <<>>))
    /\ ppc' = "done"
    /\ UNCHANGED << targetURLs, stdin, rd, stdout, putArgs, handles, fanErr >>
    /\ UNCHANGED << putVars, objVars >>

CatOutEOF ==
    /\ ppc = "cat"
    /\ rd = stdin
    /\ pipeRet' = Returned(Trace(CatOutResult(Nil), <<>>))
    /\ ppc' = "done"
    /\ UNCHANGED << targetURLs, stdin, rd, stdout, stdoutErr, putArgs,
                    handles, fanErr >>
    /\ UNCHANGED << putVars, objVars >>

\* putTargets: one handle per target, the input written once to all of
\* them, every handle closed, the first non-nil Close error returned
Handle(url, size) ==
    [url |-> url, size |-> size, written |-> <<>>, closed |-> FALSE,
     cerr |-> Nil]

PutTargetsOpen ==
    /\ ppc = "open"
    /\ handles' = [i \in DOMAIN targetURLs |->
                     Handle(targetURLs[i], putArgs.length)]
    /\ ppc' = "write"
    /\ UNCHANGED << targetURLs, stdin, rd, stdout, stdoutErr, putArgs,
                    fanErr, pipeRet >>
    /\ UNCHANGED << putVars, objVars >>

PutTargetsWrite(k) ==
    /\ ppc = "write"
    /\ k <= stdin - rd
    /\ handles' = [i \in DOMAIN handles |->
                     [handles[i] EXCEPT !.written = @ \o InputChunk(rd, k)]]
    /\ rd' = rd + k
    /\ UNCHANGED << ppc, targetURLs, stdin, stdout, stdoutErr, putArgs,
                    fanErr, pipeRet >>
    /\ UNCHANGED << putVars, objVars >>

PutTargetsEOF ==
    /\ ppc = "write"
    /\ rd = stdin
    /\ ppc' = "close"
    /\ UNCHANGED << targetURLs, stdin, rd, stdout, stdoutErr, putArgs,
                    handles, fanErr, pipeRet >>
    /\ UNCHANGED << putVars, objVars >>

Unclosed(hs) == { i \in DOMAIN hs : ~hs[i].closed }

PutTargetsClose(e) ==
    /\ ppc = "close"
    /\ Unclosed(handles) # {}
    /\ LET i == CHOOSE j \in Unclosed(handles) :
                    \A l \in Unclosed(handles) : j <= l
       IN handles' = [handles EXCEPT ![i].closed = TRUE, ![i].cerr = e]
    /\ UNCHANGED << ppc, targetURLs, stdin, rd, stdout, stdoutErr, putArgs,
                    fanErr, pipeRet >>
    /\ UNCHANGED << putVars, objVars >>

RECURSIVE FirstCloseError(_)
FirstCloseError(hs) ==
    IF hs = <<>> THEN Nil
    ELSE IF Head(hs).cerr # Nil THEN Head(hs).cerr
    ELSE FirstCloseError(Tail(hs))

PutTargetsResult(hs) ==
    IF FirstCloseError(hs) = Nil THEN NilProbe
    ELSE NewProbeError(FirstCloseError(hs))

\* line 77: err := putTargets(targetURLs, -1, os.Stdin)
PutTargetsReturn ==
    /\ ppc = "close"
    /\ Unclosed(handles) = {}
    /\ fanErr' = PutTargetsResult(handles)
    /\ ppc' = "switch"
    /\ UNCHANGED << targetURLs, stdin, rd, stdout, stdoutErr, putArgs,
                    handles, pipeRet >>
    /\ UNCHANGED << putVars, objVars >>

\* lines 79-86: a *os.PathError carrying EPIPE is a graceful exit
PipeResult(err, targets) ==
    IF IsBrokenPipe(ToGoError(err)) THEN NilProbe ELSE Trace(err, targets)

PipeReturn ==
    /\ ppc = "switch"
    /\ pipeRet' = Returned(PipeResult(fanErr, targetURLs))
    /\ ppc' = "done"
    /\ UNCHANGED << targetURLs, stdin, rd, stdout, stdoutErr, putArgs,
                    handles, fanErr >>
    /\ UNCHANGED << putVars, objVars >>

PipeCall ==
    \E targets \in TargetLists, n \in 0..MaxInput : Pipe(targets, n)

NextPipe ==
    \/ PipeCall
    \/ \E k \in 1..MaxChunk : CatOutCopy(k)
    \/ \E e \in StdoutErrors : CatOutFail(e)
    \/ CatOutEOF
    \/ PutTargetsOpen
    \/ \E k \in 1..MaxChunk : PutTargetsWrite(k)
    \/ PutTargetsEOF
    \/ \E e \in CloseOutcomes : PutTargetsClose(e)
    \/ PutTargetsReturn
    \/ PipeReturn

SpecPipe == Init /\ [][NextPipe]_vars

FannedOut == pipeRet.returned /\ Len(targetURLs) >= 1

\* C15 (as stated): with one or more targets every error of the fan-out,
\* a local-file broken-pipe error included, is returned as a failure
\* annotated with the targets and is never replaced by success.
C15_BrokenPipeOnlyZeroTargets ==
    (FannedOut /\ fanErr # NilProbe) =>
        /\ pipeRet.err # NilProbe
        /\ pipeRet.err = Trace(fanErr, targetURLs)

\* C15 (amended): a broken pipe becomes success in both paths: on standard
\* output with zero targets, and as the fan-out's error with one or more
\* targets; every other error of the fan-out is returned as a failure with
\* its cause kept and the targets appended to its trace.
C15_BrokenPipeGraceful ==
    pipeRet.returned =>
        /\ (Len(targetURLs) = 0 /\ stdoutErr = PathError("EPIPE")) =>
               pipeRet.err = NilProbe
        /\ (Len(targetURLs) >= 1 /\ fanErr.cause = PathError("EPIPE")) =>
               pipeRet.err = NilProbe
        /\ (Len(targetURLs) >= 1
              /\ fanErr.cause \notin {Nil, PathError("EPIPE")}) =>
               /\ pipeRet.err.cause = fanErr.cause
               /\ pipeRet.err.trace = Append(fanErr.trace, targetURLs)

C15_Witness ==
    /\ FannedOut
    /\ fanErr.cause = PathError("EPIPE")
    /\ pipeRet.err = NilProbe

\* C16: with no target the input is copied to standard output verbatim and
\* pipe returns success (as long as standard output accepts the bytes),
\* and no upload handle is opened; with one or more targets nothing is
\* written to standard output and every upload is opened with a negative
\* declared length.
C16_ZeroTargetsEcho ==
    /\ Len(targetURLs) = 0 =>
           /\ handles = <<>>
           /\ ppc \notin {"open", "write", "close", "switch"}
           /\ (pipeRet.returned /\ stdoutErr = Nil) =>
                  /\ stdout = BytesUpTo(stdin)
                  /\ pipeRet.err = NilProbe
    /\ Len(targetURLs) >= 1 =>
           /\ stdout = <<>>
           /\ ppc # "cat"
           /\ \A i \in DOMAIN handles : handles[i].size < 0
           /\ ppc \in {"write", "close", "switch", "done"} =>
                  Len(handles) = Len(targetURLs)

C16_Witness ==
    /\ pipeRet.returned
    /\ Len(targetURLs) = 0
    /\ stdin = MaxInput
    /\ stdout = BytesUpTo(MaxInput)
    /\ pipeRet.err = NilProbe

\* the first non-nil Close error is e
FirstFailure(e) ==
    \E i \in DOMAIN handles :
        /\ handles[i].cerr = e
        /\ e # Nil
        /\ \A j \in 1..(i - 1) : handles[j].cerr = Nil

AllDelivered ==
    \A i \in DOMAIN handles :
        /\ handles[i].written = BytesUpTo(stdin)
        /\ handles[i].closed

\* C17 (as stated): every handle receives the whole input in order and is
\* closed, and the error pipe returns is the first non-nil Close error.
C17_FirstCloseErrorReturned ==
    FannedOut =>
        /\ Len(handles) = Len(targetURLs)
        /\ AllDelivered
        /\ \A e \in CloseOutcomes \ {Nil} :
               FirstFailure(e) => pipeRet.err.cause = e
        /\ (\A i \in DOMAIN handles : handles[i].cerr = Nil) =>
               pipeRet.err = NilProbe

\* C17 (amended): every handle receives the whole input in order and is
\* closed, whatever the Close calls report; the error pipe returns is the
\* first non-nil Close error unless that error is a local-file broken
\* pipe, which pipe returns as success.
C17_ReplicatedAndClosed ==
    FannedOut =>
        /\ Len(handles) = Len(targetURLs)
        /\ AllDelivered
        /\ \A e \in CloseOutcomes \ {Nil, PathError("EPIPE")} :
               FirstFailure(e) => pipeRet.err.cause = e
        /\ FirstFailure(PathError("EPIPE")) => pipeRet.err = NilProbe
        /\ (\A i \in DOMAIN handles : handles[i].cerr = Nil) =>
               pipeRet.err = NilProbe

C17_Witness ==
    /\ FannedOut
    /\ Len(targetURLs) = MaxTargets
    /\ stdin = MaxInput
    /\ AllDelivered
    /\ handles[1].cerr = TransportError
    /\ handles[2].cerr = PathError("EIO")
    /\ pipeRet.err.cause = TransportError

(***************************************************************************)
(* The upload handle again: finality of Close, and what a nil Close means. *)
(***************************************************************************)
\* C18: once a Close has returned r the stored error stays r, and every
\* later Close returns r as well.
C18_CloseResultFinal ==
    closeRets # <<>> =>
        /\ berr = closeRets[1]
        /\ \A i \in DOMAIN closeRets : closeRets[i] = closeRets[1]

\* the Write calls made before the write end was closed
WritesBeforeClose == { j \in DOMAIN writeRets : ~writeRets[j].afterClose }

\* C20: a Close that returns nil implies that every Write before it
\* returned without error and had all its bytes taken by the transport.
C20_NilCloseMeansDelivered ==
    (\E i \in DOMAIN closeRets : closeRets[i] = Nil) =>
        \A j \in WritesBeforeClose :
            /\ writeRets[j].err = Nil
            /\ writeRets[j].n = writeRets[j].len

(***************************************************************************)
(* Progress.  The sender is a goroutine the scheduler keeps running, the   *)
(* transport returns from client.Do with a response or an error, and a     *)
(* caller whose Write or Close can return does return.  Nothing obliges    *)
(* the transport to read the body, nor the caller to call anything.        *)
(***************************************************************************)
SenderStep ==
    \/ BgBuildReq
    \/ BgCloseWithError
    \/ BgReleaseDone
    \/ BgReleaseStore
    \/ BgCloseReader

TransportReturns == TransportFail \/ \E st \in StatusCodes : TransportRespond(st)

Fairness ==
    /\ WF_vars(SenderStep)
    /\ WF_vars(TransportReturns)
    /\ WF_vars(WriteReturn)
    /\ WF_vars(CloseReturn)

\* The declared size and a well-formed hash only shape the request: the
\* progress check draws one size, and a hash that is absent or ill-formed.
LiveMd5Inputs == { <<>>, <<"a">> }

NextLive ==
    \/ \E m \in LiveMd5Inputs : Put(m, -1)
    \/ \E n \in 0..MaxChunk : WriteCall(n)
    \/ WriteReturn
    \/ CloseCall
    \/ CloseReturn
    \/ BgBuildReq
    \/ \E k \in 0..MaxChunk : TransportRead(k)
    \/ TransportReadEOF
    \/ TransportCloseBody
    \/ TransportFail
    \/ \E st \in StatusCodes : TransportRespond(st)
    \/ BgCloseWithError
    \/ BgReleaseDone
    \/ BgReleaseStore
    \/ BgCloseReader

SpecLive == Init /\ [][NextLive]_vars /\ Fairness

\* C19: under fair scheduling and a transport that returns, every Write
\* call and every Close call eventually returns.
C19_WriteAndCloseReturn ==
    /\ (cpc = "write") ~> (cpc = "idle")
    /\ (cpc = "closeWait") ~> (cpc = "idle")

\* a Write that was blocked with part of its bytes taken returned with the
\* error of the closed read end, and a Close returned as well
C19_Witness ==
    /\ closeRets # <<>>
    /\ \E j \in DOMAIN writeRets :
           /\ writeRets[j].n > 0
           /\ writeRets[j].n < writeRets[j].len
           /\ writeRets[j].err # Nil

====
